---- MODULE Spec2Model ----
(***************************************************************************)
(* Loop unrolling pass, src/pass/unroll_loop.cc.                           *)
(*                                                                         *)
(* The recursive tree rewrite LoopUnroller::Mutate is modelled as a stack  *)
(* machine: one frame per active Mutate_ call, one action per straight-line *)
(* segment of a handler between two recursive calls.  Statements are       *)
(* records that carry the identity of their node (id), so that same_as is  *)
(* reference equality and not structural equality.                         *)
(***************************************************************************)
EXTENDS Integers, Sequences, FiniteSets, TLC

VARIABLES
    stmt_in,             \* UnrollLoop argument stmt
    auto_max_step_,      \* LoopUnroller::auto_max_step_
    auto_max_depth_,     \* LoopUnroller::auto_max_depth_
    explicit_unroll_,    \* LoopUnroller::explicit_unroll_
    step_count_,         \* LoopUnroller::step_count_
    unroll_depth_,       \* LoopUnroller::unroll_depth_
    normal_loop_depth_,  \* LoopUnroller::normal_loop_depth_
    stack,               \* active Mutate_ calls, innermost last
    ret,                 \* value returned by the call that finished last
    next_id,             \* next fresh node identity (allocation)
    phase,               \* "start", "mutate", "done" or "failed" (CHECK aborted)
    ssa_calls,           \* number of ConvertSSA invocations
    mutated,             \* history: the statement the unroller returned (line 144)
    decided,             \* history: one record per loop decision taken
    blocks               \* history: one record per Block handler completed

vars == <<stmt_in, auto_max_step_, auto_max_depth_, explicit_unroll_,
          step_count_, unroll_depth_, normal_loop_depth_, stack, ret,
          next_id, phase, ssa_calls, mutated, decided, blocks>>

(***************************************************************************)
(* Bounds of the model.                                                    *)
(***************************************************************************)
\* small literal extents are 0..MaxExtent
MaxExtent == 2
\* auto_max_step is drawn from 0..MaxAutoStep
MaxAutoStep == 2
\* auto_max_depth is drawn from 0..MaxAutoDepth
MaxAutoDepth == 1

(***************************************************************************)
(* Expressions.  An integer literal holds a 64-bit value E, kept as the    *)
(* pair (hi, lo) with E = hi * 2^32 + lo and lo in -2^31 .. 2^31 - 1: lo   *)
(* is the low 32-bit word read as a signed int, hi the rest.               *)
(***************************************************************************)
IntImm(h, l) == [tag |-> "IntImm", hi |-> h, lo |-> l]
UIntImm(h, l) == [tag |-> "UIntImm", hi |-> h, lo |-> l]
VarE(n) == [tag |-> "Var", name |-> n]
AddE(x, y) == [tag |-> "Add", a |-> x, b |-> y]
CallE(f) == [tag |-> "Call", name |-> f]

IsImm(e) == e.tag \in {"IntImm", "UIntImm"}

\* arith::ComputeExpr<Add>(a, b): folds two literals, else builds the Add node
ComputeExprAdd(x, y) ==
    IF IsImm(x) /\ IsImm(y) /\ x.hi = 0 /\ y.hi = 0
    THEN [tag |-> x.tag, hi |-> 0, lo |-> x.lo + y.lo]
    ELSE AddE(x, y)

\* ir::Simplify on an expression: a literal is returned as it is, a sum of
\* literals is folded, anything else is returned unchanged
Simplify(e) ==
    IF e.tag = "Add" THEN ComputeExprAdd(e.a, e.b) ELSE e

\* make_const(type, i)
make_const(i) == IntImm(0, i)

(***************************************************************************)
(* Statements.                                                             *)
(***************************************************************************)
ForMake(nid, v, mn, ext, ft, dev, b) ==
    [kind |-> "For", id |-> nid, loop_var |-> v, min |-> mn, extent |-> ext,
     for_type |-> ft, device_api |-> dev, body |-> b]
BlockMake(nid, f, r) == [kind |-> "Block", id |-> nid, first |-> f, rest |-> r]
StoreMake(nid, val, idx) ==
    [kind |-> "Store", id |-> nid, buffer |-> "a", value |-> val, index |-> idx]
EvaluateMake(nid, val) == [kind |-> "Evaluate", id |-> nid, value |-> val]

\* an undefined Stmt handle
Undef == [kind |-> "Undef", id |-> 0]

\* Stmt::same_as: the two handles point at the same node
same_as(x, y) == x.id = y.id

(***************************************************************************)
(* Substitute(stmt, vmap) for a one-variable map: every use of variable v  *)
(* becomes repl.  A subtree without a use of v is returned as it is (same  *)
(* node); a changed one is a new node.  The result carries the allocation  *)
(* counter.                                                                *)
(***************************************************************************)
RECURSIVE SubstituteExpr(_, _, _)
SubstituteExpr(e, v, repl) ==
    CASE e.tag = "Var" -> IF e.name = v THEN repl ELSE e
      [] e.tag = "Add" ->
            LET x == SubstituteExpr(e.a, v, repl)
                y == SubstituteExpr(e.b, v, repl)
            IN  IF x = e.a /\ y = e.b THEN e ELSE AddE(x, y)
      [] OTHER -> e

RECURSIVE Substitute(_, _, _, _)
Substitute(s, v, repl, nid) ==
    CASE s.kind = "Store" ->
            LET val == SubstituteExpr(s.value, v, repl)
                idx == SubstituteExpr(s.index, v, repl)
            IN  IF val = s.value /\ idx = s.index
                THEN [stmt |-> s, nid |-> nid]
                ELSE [stmt |-> StoreMake(nid, val, idx), nid |-> nid + 1]
      [] s.kind = "Evaluate" ->
            LET val == SubstituteExpr(s.value, v, repl)
            IN  IF val = s.value
                THEN [stmt |-> s, nid |-> nid]
                ELSE [stmt |-> EvaluateMake(nid, val), nid |-> nid + 1]
      [] s.kind = "For" ->
            LET mn == SubstituteExpr(s.min, v, repl)
                ext == SubstituteExpr(s.extent, v, repl)
                b == Substitute(s.body, v, repl, nid)
            IN  IF mn = s.min /\ ext = s.extent /\ same_as(b.stmt, s.body)
                THEN [stmt |-> s, nid |-> b.nid]
                ELSE [stmt |-> ForMake(b.nid, s.loop_var, mn, ext, s.for_type,
                                       s.device_api, b.stmt),
                      nid |-> b.nid + 1]
      [] s.kind = "Block" ->
            LET f == Substitute(s.first, v, repl, nid)
                r == Substitute(s.rest, v, repl, f.nid)
            IN  IF same_as(f.stmt, s.first) /\ same_as(r.stmt, s.rest)
                THEN [stmt |-> s, nid |-> r.nid]
                ELSE [stmt |-> BlockMake(r.nid, f.stmt, r.stmt), nid |-> r.nid + 1]

(***************************************************************************)
(* ConvertSSA: a loop whose variable is already defined earlier in the     *)
(* tree gets a new variable, and the uses in its body follow.  defined is  *)
(* the set of variables defined so far, scope maps a variable to its       *)
(* current replacement.                                                    *)
(***************************************************************************)
RenameExpr(e, scope) ==
    IF e.tag = "Var" /\ e.name \in DOMAIN scope THEN VarE(scope[e.name]) ELSE e

RECURSIVE SSAMutate(_, _, _, _)
SSAMutate(s, defined, scope, nid) ==
    CASE s.kind = "Store" ->
            LET val == RenameExpr(s.value, scope)
                idx == RenameExpr(s.index, scope)
            IN  IF val = s.value /\ idx = s.index
                THEN [stmt |-> s, defined |-> defined, nid |-> nid]
                ELSE [stmt |-> StoreMake(nid, val, idx), defined |-> defined,
                      nid |-> nid + 1]
      [] s.kind = "Evaluate" -> [stmt |-> s, defined |-> defined, nid |-> nid]
      [] s.kind = "For" ->
            IF s.loop_var \in defined
            THEN LET new_var == s.loop_var \o "." \o ToString(Cardinality(defined))
                     b == SSAMutate(s.body, defined \cup {new_var},
                                    [x \in (DOMAIN scope) \cup {s.loop_var} |->
                                        IF x = s.loop_var THEN new_var ELSE scope[x]],
                                    nid)
                 IN  [stmt |-> ForMake(b.nid, new_var, s.min, s.extent, s.for_type,
                                       s.device_api, b.stmt),
                      defined |-> b.defined, nid |-> b.nid + 1]
            ELSE LET b == SSAMutate(s.body, defined \cup {s.loop_var}, scope, nid)
                 IN  IF same_as(b.stmt, s.body)
                     THEN [stmt |-> s, defined |-> b.defined, nid |-> b.nid]
                     ELSE [stmt |-> ForMake(b.nid, s.loop_var, s.min, s.extent,
                                            s.for_type, s.device_api, b.stmt),
                           defined |-> b.defined, nid |-> b.nid + 1]
      [] s.kind = "Block" ->
            LET f == SSAMutate(s.first, defined, scope, nid)
                r == SSAMutate(s.rest, f.defined, scope, f.nid)
            IN  IF same_as(f.stmt, s.first) /\ same_as(r.stmt, s.rest)
                THEN [stmt |-> s, defined |-> r.defined, nid |-> r.nid]
                ELSE [stmt |-> BlockMake(r.nid, f.stmt, r.stmt),
                      defined |-> r.defined, nid |-> r.nid + 1]

ConvertSSA(s, nid) == SSAMutate(s, {}, <<>>, nid)

(***************************************************************************)
(* LoopUnroller::Mutate_ for For, the part after the body is rewritten *)
(***************************************************************************)
\* IRMutator::Mutate_ for For: the loop itself when the body came back
\* as the same node, else a new loop around the rewritten body
IRMutatorFor(op, body, nid) ==
    IF same_as(body, op.body)
    THEN [stmt |-> op, nid |-> nid]
    ELSE [stmt |-> ForMake(nid, op.loop_var, op.min, op.extent, op.for_type,
                           op.device_api, body),
          nid |-> nid + 1]

\* lines 33-41: int value = -1, overwritten by static_cast<int> of the
\* literal's 64-bit value, which keeps the low 32-bit word
ExtentValue(extent) ==
    IF IsImm(extent) THEN extent.lo ELSE -1

\* lines 43-48: condition for auto unroll
AutoUnroll(for_type, normal_depth, value, unroll_depth, step_count, max_depth, max_step) ==
    /\ for_type = "Serial"
    /\ normal_depth = 0
    /\ value >= 0
    /\ unroll_depth <= max_depth
    /\ value * step_count <= max_step

\* lines 50-54: CHECK_GE(value, 0) of a loop already tagged Unrolled
CheckFails(for_type, value) == for_type = "Unrolled" /\ ~(value >= 0)

\* lines 50-54: an Unrolled loop is unrolled whatever the heuristic says
Decision(for_type, auto) == IF for_type = "Unrolled" THEN TRUE ELSE auto

\* Compose with the operands of Block::make exchanged
ComposeSwapped(nid, unrolled, step) ==
    IF unrolled.kind # "Undef"
    THEN [stmt |-> BlockMake(nid, step, unrolled), nid |-> nid + 1]
    ELSE [stmt |-> step, nid |-> nid]

\* line 76 / 78: the unrolled statement after one more step
Compose(nid, unrolled, step) ==
    IF unrolled.kind # "Undef"
    THEN [stmt |-> BlockMake(nid, unrolled, step), nid |-> nid + 1]
    ELSE [stmt |-> step, nid |-> nid]

\* line 71-73: the value the loop variable takes in iteration i
IterValue(mn, i) == ComputeExprAdd(mn, make_const(i))

\* lines 66-81: for (int i = 0; i < value; ++i)
RECURSIVE UnrollFrom(_, _, _, _, _)
UnrollFrom(op, i, value, unrolled, nid) ==
    IF ~(i < value)
    THEN [stmt |-> unrolled, nid |-> nid]
    ELSE LET step == Substitute(op.body, op.loop_var, IterValue(op.min, i), nid)
             next == Compose(step.nid, unrolled, step.stmt)
         IN  UnrollFrom(op, i + 1, value, next.stmt, next.nid)

\* ForResult without the value == 0 case of line 65
ForResultNoZeroCase(op, auto_unroll, explicit_unroll, value, nid) ==
    IF auto_unroll /\ explicit_unroll
    THEN UnrollFrom(op, 0, value, Undef, nid)
    ELSE IF auto_unroll /\ op.for_type # "Unrolled"
         THEN [stmt |-> ForMake(nid, op.loop_var, op.min, op.extent, "Unrolled",
                                op.device_api, op.body),
               nid |-> nid + 1]
         ELSE [stmt |-> op, nid |-> nid]

\* ForResult without the auto_unroll test of line 83
ForResultTagAlways(op, auto_unroll, explicit_unroll, value, nid) ==
    IF auto_unroll /\ explicit_unroll
    THEN IF value = 0
         THEN [stmt |-> EvaluateMake(nid, IntImm(0, 0)), nid |-> nid + 1]
         ELSE UnrollFrom(op, 0, value, Undef, nid)
    ELSE IF op.for_type # "Unrolled"
         THEN [stmt |-> ForMake(nid, op.loop_var, op.min, op.extent, "Unrolled",
                                op.device_api, op.body),
               nid |-> nid + 1]
         ELSE [stmt |-> op, nid |-> nid]

\* lines 63-91: the statement the loop handler returns; op is the loop as
\* IRMutator returned it
ForResult(op, auto_unroll, explicit_unroll, value, nid) ==
    IF auto_unroll /\ explicit_unroll
    THEN IF value = 0
         THEN [stmt |-> EvaluateMake(nid, IntImm(0, 0)), nid |-> nid + 1]
         ELSE UnrollFrom(op, 0, value, Undef, nid)
    ELSE IF auto_unroll /\ op.for_type # "Unrolled"
         THEN [stmt |-> ForMake(nid, op.loop_var, op.min, op.extent, "Unrolled",
                                op.device_api, op.body),
               nid |-> nid + 1]
         ELSE [stmt |-> op, nid |-> nid]

\* CountersAfterFor without unroll_depth_ += 1
CountersAfterForNoDepth(auto_unroll, value, c) ==
    IF auto_unroll
    THEN [step |-> c.step * value, unroll |-> c.unroll, normal |-> c.normal]
    ELSE [step |-> c.step, unroll |-> c.unroll, normal |-> c.normal + 1]

\* lines 56-61: the counters after the decision
CountersAfterFor(auto_unroll, value, c) ==
    IF auto_unroll
    THEN [step |-> c.step * value, unroll |-> c.unroll + 1, normal |-> c.normal]
    ELSE [step |-> c.step, unroll |-> c.unroll, normal |-> c.normal + 1]

(***************************************************************************)
(* LoopUnroller::Mutate_ for Block                                     *)
(***************************************************************************)
Max(x, y) == IF x < y THEN y ELSE x

\* CountersAfterBlock with the depths added like the step count
CountersAfterBlockSum(saved, c) ==
    [step |-> c.step + saved.step,
     unroll |-> c.unroll + saved.unroll,
     normal |-> saved.normal + c.normal]

\* lines 115-117: the counters after rest, merged with the snapshot taken
\* after first
CountersAfterBlock(saved, c) ==
    [step |-> c.step + saved.step,
     unroll |-> Max(c.unroll, saved.unroll),
     normal |-> Max(saved.normal, c.normal)]

\* BlockResult without the same_as test: always a new Block
BlockResultRebuild(op, first, rest, nid) ==
    [stmt |-> BlockMake(nid, first, rest), nid |-> nid + 1]

\* lines 118-123
BlockResult(op, first, rest, nid) ==
    IF same_as(first, op.first) /\ same_as(rest, op.rest)
    THEN [stmt |-> op, nid |-> nid]
    ELSE [stmt |-> BlockMake(nid, first, rest), nid |-> nid + 1]

\* lines 148-152: whether UnrollLoop hands the result to ConvertSSA
NeedsSSA(r, s) == ~same_as(r, s)

(***************************************************************************)
(* Input trees.  Node identities are the positions 1, 2, ... of the nodes  *)
(* in the input; the pass allocates new nodes from FirstFresh on.          *)
(***************************************************************************)
RECURSIVE MaxId(_)
MaxId(s) ==
    CASE s.kind = "For" -> IF s.id < MaxId(s.body) THEN MaxId(s.body) ELSE s.id
      [] s.kind = "Block" ->
            LET f == MaxId(s.first)
                r == MaxId(s.rest)
                c == IF f < r THEN r ELSE f
            IN  IF s.id < c THEN c ELSE s.id
      [] OTHER -> s.id
FirstFresh(s) == MaxId(s) + 1

SmallExtents == {IntImm(0, k) : k \in 0..MaxExtent}
\* 2^32 as a signed 64-bit literal, 2^32 - 1 as an unsigned literal
WideExtents == {IntImm(1, 0), UIntImm(1, -1)}
\* a negative literal, a symbolic extent, a sum the simplifier folds
OtherExtents == {IntImm(0, -1), VarE("n"), AddE(IntImm(0, 1), IntImm(0, 1))}

Cfg(ft, ext) == [for_type |-> ft, extent |-> ext]
FullConfigs ==
    {Cfg(ft, e) : ft \in {"Serial", "Unrolled"},
                  e \in SmallExtents \cup WideExtents \cup OtherExtents}
    \cup {Cfg(ft, IntImm(0, MaxExtent)) : ft \in {"Parallel", "Vectorized"}}
CoreConfigs ==
    {Cfg("Serial", e) : e \in SmallExtents}
    \cup {Cfg("Serial", VarE("n")), Cfg("Unrolled", IntImm(0, MaxExtent))}

StoreOf(nid, v) == StoreMake(nid, VarE(v), VarE(v))
EvalOf(nid) == EvaluateMake(nid, CallE("f"))
Loop(nid, v, m, c, b) ==
    ForMake(nid, v, IntImm(0, m), c.extent, c.for_type, "dev", b)

InputTrees ==
    \* a leaf alone, and two leaves in sequence
    {StoreOf(1, "x"), EvalOf(1), BlockMake(1, StoreOf(2, "x"), EvalOf(3))}
    \* one loop around a leaf or around a sequence of leaves
    \cup {Loop(1, "i", m, c, b) :
            m \in {0, 1}, c \in FullConfigs,
            b \in {StoreOf(2, "i"), EvalOf(2),
                   BlockMake(2, StoreOf(3, "i"), EvalOf(4))}}
    \* two nested loops
    \cup {Loop(1, "j", 0, c1, Loop(2, "i", 0, c2, StoreOf(3, "i"))) :
            c1 \in FullConfigs, c2 \in FullConfigs}
    \* three nested loops
    \cup {Loop(1, "k", 0, c1, Loop(2, "j", 0, c2, Loop(3, "i", 0, c3, StoreOf(4, "i")))) :
            c1 \in CoreConfigs, c2 \in CoreConfigs, c3 \in CoreConfigs}
    \* two loops in sequence
    \cup {BlockMake(1, Loop(2, "i", 0, c1, StoreOf(3, "i")),
                       Loop(4, "k", 0, c2, StoreOf(5, "k"))) :
            c1 \in CoreConfigs, c2 \in FullConfigs}
    \* a loop around two loops in sequence
    \cup {Loop(1, "j", 0, c0,
               BlockMake(2, Loop(3, "i", 0, c1, StoreOf(4, "i")),
                            Loop(5, "k", 0, c2, EvalOf(6)))) :
            c0 \in CoreConfigs, c1 \in CoreConfigs, c2 \in CoreConfigs}
    \* a left-nested sequence
    \cup {BlockMake(1, BlockMake(2, Loop(3, "i", 0, c1, StoreOf(4, "i")), EvalOf(5)),
                       Loop(6, "k", 0, c2, StoreOf(7, "k"))) :
            c1 \in CoreConfigs, c2 \in CoreConfigs}

Params == [step : 0..MaxAutoStep, depth : 0..MaxAutoDepth, explicit : BOOLEAN]

\* the two worked examples: a loop of extent 4, and a loop of extent 100
\* around it, with max_auto_step = 16 and max_auto_depth = 8
Example4 == Loop(1, "i", 0, Cfg("Serial", IntImm(0, 4)), StoreOf(2, "i"))
Example100 ==
    Loop(1, "j", 0, Cfg("Serial", IntImm(0, 100)),
         Loop(2, "i", 0, Cfg("Serial", IntImm(0, 4)), StoreOf(3, "i")))
ExampleParams == [step : {16}, depth : {8}, explicit : BOOLEAN]

Inputs ==
    (InputTrees \X Params) \cup ({Example4, Example100} \X ExampleParams)

(***************************************************************************)
(* State machine.                                                          *)
(***************************************************************************)
Zero == [step |-> 0, unroll |-> 0, normal |-> 0]
Counters ==
    [step |-> step_count_, unroll |-> unroll_depth_, normal |-> normal_loop_depth_]

\* a call this->Mutate(op): a new frame, at the start of its handler
Frame(op, c) ==
    [op |-> op, pc |-> "call", first |-> Undef, saved |-> Zero, entry |-> c]
Top == stack[Len(stack)]
Callers == SubSeq(stack, 1, Len(stack) - 1)
At(kind, pc) ==
    /\ phase = "mutate"
    /\ stack # <<>>
    /\ Top.op.kind = kind
    /\ Top.pc = pc

\* the loops whose handler is active around the innermost call
Enclosing == {Callers[k].op.id : k \in {j \in DOMAIN Callers : Callers[j].op.kind = "For"}}

\* lines 20-26 and 132-136: construction
Init ==
    /\ \E in \in Inputs :
        /\ stmt_in = in[1]
        /\ auto_max_step_ = in[2].step
        /\ auto_max_depth_ = in[2].depth
        /\ explicit_unroll_ = in[2].explicit
    /\ step_count_ = 0
    /\ unroll_depth_ = 0
    /\ normal_loop_depth_ = 0
    /\ stack = <<>>
    /\ ret = Undef
    /\ next_id = FirstFresh(stmt_in)
    /\ mutated = Undef
    /\ phase = "start"
    /\ ssa_calls = 0
    /\ decided = <<>>
    /\ blocks = <<>>

params == <<stmt_in, auto_max_step_, auto_max_depth_, explicit_unroll_>>
history == <<mutated, decided, blocks>>
counters == <<step_count_, unroll_depth_, normal_loop_depth_>>

\* lines 144-147: UnrollLoop calls LoopUnroller(...).Mutate(stmt)
UnrollLoopCall ==
    /\ phase = "start"
    /\ phase' = "mutate"
    /\ stack' = <<Frame(stmt_in, Counters)>>
    /\ UNCHANGED <<params, counters, ret, next_id, ssa_calls, history>>

\* lines 148-152: the unroller returned
UnrollLoopReturn ==
    /\ phase = "mutate"
    /\ stack = <<>>
    /\ IF NeedsSSA(ret, stmt_in)
       THEN LET r == ConvertSSA(ret, next_id)
            IN  /\ ret' = r.stmt
                /\ next_id' = r.nid
                /\ ssa_calls' = ssa_calls + 1
       ELSE UNCHANGED <<ret, next_id, ssa_calls>>
    /\ phase' = "done"
    /\ mutated' = ret
    /\ UNCHANGED <<params, counters, stack, decided, blocks>>

\* lines 94-97
MutateStore ==
    /\ At("Store", "call")
    /\ step_count_' = step_count_ + 1
    /\ ret' = Top.op
    /\ stack' = Callers
    /\ UNCHANGED <<params, unroll_depth_, normal_loop_depth_, next_id, phase,
                   ssa_calls, history>>

\* lines 99-102
MutateEvaluate ==
    /\ At("Evaluate", "call")
    /\ step_count_' = step_count_ + 1
    /\ ret' = Top.op
    /\ stack' = Callers
    /\ UNCHANGED <<params, unroll_depth_, normal_loop_depth_, next_id, phase,
                   ssa_calls, history>>

\* line 29: IRMutator::Mutate_ rewrites the body first
MutateForBody ==
    /\ At("For", "call")
    /\ stack' = Append([stack EXCEPT ![Len(stack)].pc = "body"],
                       Frame(Top.op.body, Counters))
    /\ UNCHANGED <<params, counters, ret, next_id, phase, ssa_calls, history>>

\* lines 29-91, after the body came back in ret
MutateForDecide ==
    /\ At("For", "body")
    /\ LET m == IRMutatorFor(Top.op, ret, next_id)
           op == m.stmt
           extent == Simplify(op.extent)
           value == ExtentValue(extent)
           auto == AutoUnroll(op.for_type, normal_loop_depth_, value, unroll_depth_,
                              step_count_, auto_max_depth_, auto_max_step_)
           fails == CheckFails(op.for_type, value)
           auto_unroll == Decision(op.for_type, auto)
           after == CountersAfterFor(auto_unroll, value, Counters)
           res == ForResult(op, auto_unroll, explicit_unroll_, value, m.nid)
           rec == [id |-> Top.op.id, orig |-> Top.op, op |-> op, extent |-> extent,
                   value |-> value, at |-> Counters, entry |-> Top.entry,
                   body |-> ret,
                   enclosing |-> Enclosing, failed |-> fails,
                   eligible |-> auto_unroll,
                   result |-> IF fails THEN Undef ELSE res.stmt]
       IN  /\ decided' = Append(decided, rec)
           /\ IF fails
              THEN /\ phase' = "failed"
                   /\ stack' = <<>>
                   /\ ret' = Undef
                   /\ UNCHANGED <<counters, next_id>>
              ELSE /\ step_count_' = after.step
                   /\ unroll_depth_' = after.unroll
                   /\ normal_loop_depth_' = after.normal
                   /\ ret' = res.stmt
                   /\ next_id' = res.nid
                   /\ stack' = Callers
                   /\ UNCHANGED phase
    /\ UNCHANGED <<params, ssa_calls, mutated, blocks>>

\* line 105
MutateBlockFirst ==
    /\ At("Block", "call")
    /\ stack' = Append([stack EXCEPT ![Len(stack)].pc = "first"],
                       Frame(Top.op.first, Counters))
    /\ UNCHANGED <<params, counters, ret, next_id, phase, ssa_calls, history>>

\* lines 105-114: first came back in ret; snapshot, reset, rewrite rest
MutateBlockRest ==
    /\ At("Block", "first")
    /\ step_count_' = 0
    /\ unroll_depth_' = 0
    /\ normal_loop_depth_' = 0
    /\ stack' = Append([stack EXCEPT ![Len(stack)].pc = "rest",
                                     ![Len(stack)].first = ret,
                                     ![Len(stack)].saved = Counters],
                       Frame(Top.op.rest, Zero))
    /\ UNCHANGED <<params, ret, next_id, phase, ssa_calls, history>>

\* lines 114-123: rest came back in ret
MutateBlockReturn ==
    /\ At("Block", "rest")
    /\ LET after == CountersAfterBlock(Top.saved, Counters)
           res == BlockResult(Top.op, Top.first, ret, next_id)
       IN  /\ step_count_' = after.step
           /\ unroll_depth_' = after.unroll
           /\ normal_loop_depth_' = after.normal
           /\ ret' = res.stmt
           /\ next_id' = res.nid
           /\ blocks' = Append(blocks,
                  [id |-> Top.op.id, op |-> Top.op, entry |-> Top.entry,
                   after_first |-> Top.saved, after_rest |-> Counters,
                   after |-> after, first |-> Top.first, rest |-> ret,
                   result |-> res.stmt])
    /\ stack' = Callers
    /\ UNCHANGED <<params, phase, ssa_calls, mutated, decided>>

Next ==
    \/ UnrollLoopCall
    \/ UnrollLoopReturn
    \/ MutateStore
    \/ MutateEvaluate
    \/ MutateForBody
    \/ MutateForDecide
    \/ MutateBlockFirst
    \/ MutateBlockRest
    \/ MutateBlockReturn

Spec == Init /\ [][Next]_vars

(***************************************************************************)
(* The counters and the decisions of a fresh LoopUnroller run on statement *)
(* s from counters c, as a function: what lines 28-61 and 94-117 compute,  *)
(* without the rewritten tree.  dec holds <<loop id, decision>>.           *)
(***************************************************************************)
RECURSIVE Alone(_, _, _, _)
Alone(s, c, max_depth, max_step) ==
    CASE s.kind = "For" ->
            LET b == Alone(s.body, c, max_depth, max_step)
                value == ExtentValue(Simplify(s.extent))
                auto == Decision(s.for_type,
                                 AutoUnroll(s.for_type, b.c.normal, value, b.c.unroll,
                                            b.c.step, max_depth, max_step))
            IN  [c |-> CountersAfterFor(auto, value, b.c),
                 dec |-> b.dec \cup {<<s.id, auto>>}]
      [] s.kind = "Block" ->
            LET f == Alone(s.first, c, max_depth, max_step)
                r == Alone(s.rest, Zero, max_depth, max_step)
            IN  [c |-> CountersAfterBlock(f.c, r.c), dec |-> f.dec \cup r.dec]
      [] OTHER -> [c |-> [c EXCEPT !.step = @ + 1], dec |-> {}]

(***************************************************************************)
(* Vocabulary of the properties.                                           *)
(***************************************************************************)
\* the statement without the identities of its nodes
RECURSIVE Shape(_)
Shape(s) ==
    CASE s.kind = "For" ->
            [kind |-> "For", loop_var |-> s.loop_var, min |-> s.min,
             extent |-> s.extent, for_type |-> s.for_type,
             device_api |-> s.device_api, body |-> Shape(s.body)]
      [] s.kind = "Block" ->
            [kind |-> "Block", first |-> Shape(s.first), rest |-> Shape(s.rest)]
      [] s.kind = "Store" ->
            [kind |-> "Store", buffer |-> s.buffer, value |-> s.value, index |-> s.index]
      [] s.kind = "Evaluate" -> [kind |-> "Evaluate", value |-> s.value]
      [] OTHER -> [kind |-> "Undef"]

Seq2(f, r) == [kind |-> "Block", first |-> f, rest |-> r]

\* the statements of s read left to right, sequences opened up
RECURSIVE Flat(_)
Flat(s) ==
    IF s.kind = "Block" THEN Flat(s.first) \o Flat(s.rest) ELSE <<Shape(s)>>

\* the loops over variable v that s still contains
RECURSIVE LoopsOver(_, _)
LoopsOver(s, v) ==
    CASE s.kind = "For" ->
            (IF s.loop_var = v THEN {s.id} ELSE {}) \cup LoopsOver(s.body, v)
      [] s.kind = "Block" -> LoopsOver(s.first, v) \cup LoopsOver(s.rest, v)
      [] OTHER -> {}

\* the loops of s
RECURSIVE LoopIds(_)
LoopIds(s) ==
    CASE s.kind = "For" -> {s.id} \cup LoopIds(s.body)
      [] s.kind = "Block" -> LoopIds(s.first) \cup LoopIds(s.rest)
      [] OTHER -> {}

\* the literal's 64-bit value E = hi * 2^32 + lo, compared without computing it
LitIs(e, n) == IsImm(e) /\ e.hi = 0 /\ e.lo = n
LitNonNeg(e) == IsImm(e) /\ (e.hi > 0 \/ (e.hi = 0 /\ e.lo >= 0))
LitPositive(e) == IsImm(e) /\ (e.hi > 0 \/ (e.hi = 0 /\ e.lo > 0))
\* E * s <= bound, for E >= 0, s >= 0 and bound below 2^31
LitTimesLeq(e, s, bound) ==
    IF e.hi = 0 THEN e.lo * s <= bound ELSE s = 0 /\ 0 <= bound

\* copy i of the body of decision d: substitute(B, v -> m + i)
CopyOf(d, i) ==
    Substitute(d.op.body, d.op.loop_var, IntImm(0, d.op.min.lo + i), 0).stmt

\* the n copies read left to right
RECURSIVE CopiesFlat(_, _)
CopiesFlat(d, n) ==
    IF n <= 0 THEN <<>> ELSE CopiesFlat(d, n - 1) \o Flat(CopyOf(d, n - 1))

Decisions == {decided[k] : k \in DOMAIN decided}
Done == phase = "done"

\* a statement without effect
IsNoOp(s) == s.kind = "Evaluate" /\ s.value = IntImm(0, 0)

(***************************************************************************)
(* Properties.                                                             *)
(***************************************************************************)

\* C1 (as stated): with explicit_unroll, an eligible loop over v with min m,
\* rewritten body B and literal extent N > 0 is replaced by exactly the N
\* statements substitute(B, v -> m + i), i = 0..N-1, in ascending order left
\* to right, nothing inserted, dropped or reordered, and no loop over v is left.
C1_ExactExpansion ==
    \A d \in Decisions :
        (explicit_unroll_ /\ d.eligible /\ ~d.failed /\ LitPositive(d.extent)) =>
            /\ \E n \in 1..Len(Flat(d.result)) :
                    /\ LitIs(d.extent, n)
                    /\ Flat(d.result) = CopiesFlat(d, n)
            /\ LoopsOver(d.result, d.op.loop_var) = {}

\* C2 (as stated): a Serial loop with resolved extent N, decided at counters
\* (S, D, L), is eligible if and only if L = 0, N is a known literal, N >= 0,
\* D <= max_auto_depth and N * S <= max_auto_step; a loop that is neither
\* Serial nor Unrolled is never eligible.
C2_BudgetGate ==
    \A d \in Decisions :
        /\ d.op.for_type = "Serial" =>
              (d.eligible <=>
                  /\ d.at.normal = 0
                  /\ LitNonNeg(d.extent)
                  /\ d.at.unroll <= auto_max_depth_
                  /\ LitTimesLeq(d.extent, d.at.step, auto_max_step_))
        /\ d.op.for_type \notin {"Serial", "Unrolled"} => ~d.eligible

\* C3 (as stated): a loop already tagged Unrolled makes the pass fail if and
\* only if its extent is not a non-negative integer literal, in both modes;
\* when it does not fail it is eligible whatever the budget and the counters;
\* no loop of another kind makes the pass fail.
C3_ForcedUnrollCheck ==
    \A d \in Decisions :
        /\ d.op.for_type = "Unrolled" =>
              /\ d.failed <=> ~LitNonNeg(d.extent)
              /\ ~d.failed => d.eligible
        /\ d.op.for_type # "Unrolled" => ~d.failed

\* C10 (as stated): for a loop whose simplified extent is the integer literal
\* E, the value used for the eligibility test, for step_count *= value and
\* for the number of copies is E itself, with no wrap-around to 32 bits.
C10_ExtentValueIsLiteral ==
    \A d \in Decisions : IsImm(d.extent) => LitIs(d.extent, d.value)

\* C4 (as stated): every eligible loop whose resolved extent is 0 is replaced
\* by a no-op statement, with explicit_unroll and without it.
C4_ZeroExtentCollapseBothModes ==
    \A d \in Decisions :
        (d.eligible /\ ~d.failed /\ LitIs(d.extent, 0)) => IsNoOp(d.result)

\* C4 (amended): an eligible loop whose resolved extent is 0 is replaced by a
\* no-op statement when the pass materializes (explicit_unroll); when it only
\* tags, the loop stays, with its variable, min, extent, device tag and
\* rewritten body, and its kind Unrolled.
C4_ZeroExtentCollapse ==
    \A d \in Decisions :
        (d.eligible /\ ~d.failed /\ LitIs(d.extent, 0)) =>
            IF explicit_unroll_
            THEN IsNoOp(d.result)
            ELSE Shape(d.result) = Shape([d.op EXCEPT !.for_type = "Unrolled"])

\* C4 witness: a Serial loop of extent 0 was found eligible while materializing
C4_Witness ==
    \E d \in Decisions :
        /\ explicit_unroll_
        /\ d.eligible /\ ~d.failed /\ LitIs(d.extent, 0)
        /\ d.op.for_type = "Serial"
        /\ IsNoOp(d.result)

\* C5: when no loop of the input is eligible the pass returns the very node
\* it was given and ConvertSSA is not called; in every run ConvertSSA is
\* called at most once, and it is called exactly when the unroller's result
\* is not the input node.
C5_IdentityPreservation ==
    /\ ssa_calls <= 1
    /\ Done =>
          /\ ssa_calls = 1 <=> ~same_as(mutated, stmt_in)
          /\ (\A d \in Decisions : ~d.eligible) =>
                /\ same_as(ret, stmt_in)
                /\ ret = stmt_in
                /\ ssa_calls = 0

\* C5 witness: a run over a sequence with loops, none eligible, that returned
\* the input node
C5_Witness ==
    /\ Done
    /\ stmt_in.kind = "Block"
    /\ Len(decided) >= 2
    /\ \A d \in Decisions : ~d.eligible
    /\ same_as(ret, stmt_in)
    /\ ssa_calls = 0

\* left-nested and right-nested composition of a non-empty sequence of shapes
RECURSIVE LeftNest(_)
LeftNest(q) ==
    IF Len(q) = 1 THEN q[1]
    ELSE Seq2(LeftNest(SubSeq(q, 1, Len(q) - 1)), q[Len(q)])
RECURSIVE RightNest(_)
RightNest(q) ==
    IF Len(q) = 1 THEN q[1] ELSE Seq2(q[1], RightNest(Tail(q)))

\* the shapes of the copies a decision with value n is materialized into
CopyShapes(d, n) == [i \in 1..n |-> Shape(CopyOf(d, i - 1))]

\* Store(a[n], n)
StoreAt(n) ==
    [kind |-> "Store", buffer |-> "a", value |-> IntImm(0, n), index |-> IntImm(0, n)]

RunsExample4 ==
    /\ stmt_in = Example4
    /\ auto_max_step_ = 16 /\ auto_max_depth_ = 8 /\ explicit_unroll_

RECURSIVE BlocksOf(_)
BlocksOf(s) ==
    CASE s.kind = "For" -> BlocksOf(s.body)
      [] s.kind = "Block" -> {s} \cup BlocksOf(s.first) \cup BlocksOf(s.rest)
      [] OTHER -> {}

AloneFromZero(s) == Alone(s, Zero, auto_max_depth_, auto_max_step_)

\* C6: for a Sequence(first, rest) entered with the three counters at zero,
\* where first alone from zero counters yields (s1, u1, n1) and rest alone
\* yields (s2, u2, n2), the counters after the Sequence are s1 + s2,
\* max(u1, u2) and max(n1, n2); and every loop inside rest is decided as it
\* is when rest is evaluated alone, whatever first produced.
C6_SequenceCounterAlgebra ==
    /\ \A k \in DOMAIN blocks :
          LET b == blocks[k]
              a1 == AloneFromZero(b.op.first).c
              a2 == AloneFromZero(b.op.rest).c
          IN  b.entry = Zero =>
                /\ b.after.step = a1.step + a2.step
                /\ b.after.unroll = Max(a1.unroll, a2.unroll)
                /\ b.after.normal = Max(a1.normal, a2.normal)
    /\ \A d \in Decisions : \A b \in BlocksOf(stmt_in) :
          d.id \in LoopIds(b.rest) =>
              <<d.id, d.eligible>> \in AloneFromZero(b.rest).dec

\* C6 witness: a Sequence of two loops, both unrolled, each with steps of its
\* own, has been merged
C6_Witness ==
    \E k \in DOMAIN blocks :
        /\ blocks[k].entry = Zero
        /\ blocks[k].op.first.kind = "For" /\ blocks[k].op.rest.kind = "For"
        /\ blocks[k].after_first.step > 0 /\ blocks[k].after_rest.step > 0
        /\ blocks[k].after_first.unroll = 1 /\ blocks[k].after_rest.unroll = 1
        /\ blocks[k].after.step = blocks[k].after_first.step + blocks[k].after_rest.step

RunsExample100 ==
    /\ stmt_in = Example100
    /\ auto_max_step_ = 16 /\ explicit_unroll_

\* C8: loops are decided bottom-up: a loop is decided as it is when its own
\* subtree is the whole input, whatever becomes of the loops around it; a loop
\* that is not eligible comes back with its variable, min, extent, kind and
\* device tag, around the rewritten body (the same node when the body is the
\* same node).  The loop of extent 100 around the loop of extent 4, with
\* max_auto_step 16 and explicit_unroll, comes back Serial with extent 100
\* around the 4 copies.
C8_NestedIndependence ==
    /\ \A d \in Decisions :
          /\ <<d.id, d.eligible>> \in AloneFromZero(d.orig).dec
          /\ (~d.eligible /\ ~d.failed) =>
                /\ Shape(d.result) = Shape([d.orig EXCEPT !.body = d.body])
                /\ same_as(d.body, d.orig.body) => d.result = d.orig
    /\ (Done /\ RunsExample100) =>
          Shape(ret) =
              [kind |-> "For", loop_var |-> "j", min |-> IntImm(0, 0),
               extent |-> IntImm(0, 100), for_type |-> "Serial",
               device_api |-> "dev",
               body |-> LeftNest(<<StoreAt(0), StoreAt(1), StoreAt(2), StoreAt(3)>>)]

\* C8 witness: the example ran to its end: inner loop unrolled, outer not
C8_Witness ==
    /\ Done /\ RunsExample100
    /\ \E d \in Decisions : d.id = 2 /\ d.eligible /\ d.enclosing = {1}
    /\ \E d \in Decisions : d.id = 1 /\ ~d.eligible /\ d.result.kind = "For"
    /\ Len(Flat(ret.body)) = 4

\* the decisions taken before decision k
Earlier(k) == {decided[j] : j \in 1..(k - 1)}
EligibleOf(nid) == (CHOOSE d \in Decisions : d.id = nid).eligible

\* the largest number of loops decided `which` on a path down statement s,
\* the branches of a Sequence taken by maximum
RECURSIVE DepthBelow(_, _)
DepthBelow(s, which) ==
    CASE s.kind = "For" ->
            DepthBelow(s.body, which) + (IF EligibleOf(s.id) = which THEN 1 ELSE 0)
      [] s.kind = "Block" -> Max(DepthBelow(s.first, which), DepthBelow(s.rest, which))
      [] OTHER -> 0

\* C9 (as stated): when a loop is decided, unroll_depth is the number of its
\* enclosing loops already decided to be unrolled and normal_loop_depth the
\* number of its enclosing loops already decided not to be.
C9_CountersCountAncestors ==
    \A k \in DOMAIN decided :
        LET d == decided[k]
        IN  /\ d.at.unroll =
                  Cardinality({e \in Earlier(k) : e.id \in d.enclosing /\ e.eligible})
            /\ d.at.normal =
                  Cardinality({e \in Earlier(k) : e.id \in d.enclosing /\ ~e.eligible})

\* C9 (amended): in a tree of loops, side-effect leaves and sequences, when a
\* loop is decided none of its enclosing loops has been decided; unroll_depth
\* is the largest number of loops decided to be unrolled on a path from the
\* loop down into its body, and normal_loop_depth the largest number of loops
\* decided not to be unrolled on such a path, the two branches of a Sequence
\* counted by maximum and not added.
C9_CountersCountDescendants ==
    \A k \in DOMAIN decided :
        LET d == decided[k]
        IN  /\ {e \in Earlier(k) : e.id \in d.enclosing} = {}
            /\ d.at.unroll = DepthBelow(d.orig.body, TRUE)
            /\ d.at.normal = DepthBelow(d.orig.body, FALSE)

\* C9 witness: a loop around a Sequence of two unrolled loops is decided with
\* unroll_depth 1, and it has no enclosing loop
C9_Witness ==
    \E d \in Decisions :
        /\ d.orig.body.kind = "Block"
        /\ d.orig.body.first.kind = "For" /\ d.orig.body.rest.kind = "For"
        /\ EligibleOf(d.orig.body.first.id) /\ EligibleOf(d.orig.body.rest.id)
        /\ d.at.unroll = 1
        /\ d.enclosing = {}

====
